---- MODULE Spec2Model ----
(***************************************************************************)
(* POS payment helpers: the numpad buffer (usePaymentNumpad), the payment  *)
(* calculations and their round2 (usePaymentCalculations), the quick       *)
(* amount suggester (useQuickAmounts) and the currency utilities           *)
(* (formatCurrency, round2).                                               *)
(*                                                                         *)
(* JavaScript numbers are modelled as records: a finite number is held in  *)
(* thousandths (field m), so that values with more than two decimals and   *)
(* the rounding of x.xx5 exist in the model; NaN, the two infinities and a *)
(* magnitude of 1e21 or more are separate kinds.  Strings are sequences of *)
(* one-character strings.                                                  *)
(***************************************************************************)
EXTENDS Integers, Sequences, FiniteSets, TLC

VARIABLES
    numpadDisplay,   \* usePaymentNumpad: the ref numpadDisplay
    afterSet,        \* history: the last setNumpadValue(number) not yet followed by an edit
    paymentEntries,  \* usePaymentCalculations: paymentEntries.value (the amounts)
    grandTotal,      \* usePaymentCalculations: grandTotal.value
    roundedTotal,    \* round2(grandTotal.value), as both remainingAmount and changeAmount use it
    totalPaid,       \* computed totalPaid
    remainingAmount, \* computed remainingAmount
    changeAmount,    \* computed changeAmount
    remaining,       \* useQuickAmounts: remainingAmount.value, its input
    quickAmounts,    \* computed quickAmounts
    roundIn,         \* the argument of round2
    payOnce,         \* round2 of the payment calculations, applied once
    payTwice,        \* ... applied to its own result
    curOnce,         \* round2 of the currency utilities, applied once
    curTwice,        \* ... applied to its own result
    fmtValue,        \* formatCurrency: value
    fmtCurrency,     \* formatCurrency: currency
    fmtLocale,       \* formatCurrency: locale
    fmtResult        \* formatCurrency: the string returned

numpadVars == <<numpadDisplay, afterSet>>
payVars == <<paymentEntries, grandTotal, roundedTotal, totalPaid, remainingAmount, changeAmount>>
quickVars == <<remaining, quickAmounts>>
roundVars == <<roundIn, payOnce, payTwice, curOnce, curTwice>>
fmtVars == <<fmtValue, fmtCurrency, fmtLocale, fmtResult>>
vars == <<numpadVars, payVars, quickVars, roundVars, fmtVars>>

----------------------------------------------------------------------------
(* Bounds of the model.                                                    *)

\* The digit keys pressed on the numpad are '0'..MaxDigitKey.
MaxDigitKey == 1
\* At most this many payment entries.
MaxEntries == 2
\* round2 is applied to every multiple of 0.001 up to this many thousandths.
MaxMills == 1300
\* Quick amounts are computed for remaining amounts up to this many units, and
\* for multiples of 100 units up to this many hundreds.
MaxWhole == 2100
MaxHundreds == 300
\* formatCurrency is applied to values up to this many thousandths.
MaxFmtMills == 120

----------------------------------------------------------------------------
(* JavaScript values.                                                      *)

\* One unit is Scale thousandths.
Scale == 1000

Fin(m) == [k |-> "fin", m |-> m]
NaN == [k |-> "nan", m |-> 0]
PosInf == [k |-> "inf", m |-> 1]
NegInf == [k |-> "inf", m |-> -1]
\* A number of magnitude 1e21 or more (the model holds only 1e21 itself).
Huge == [k |-> "big", m |-> 1]
\* The value undefined (a missing property).
Undefined == [k |-> "undefined", m |-> 0]
\* A value that is a string, not a number.
StrVal(s) == [k |-> "string", m |-> 0, s |-> s]

IsNumber(v) == v.k \in {"fin", "nan", "inf", "big"}

AbsInt(i) == IF i < 0 THEN -i ELSE i

\* a - b
Sub(a, b) ==
    IF a.k = "nan" \/ b.k = "nan" THEN NaN
    ELSE IF a.k = "fin" /\ b.k = "fin" THEN Fin(a.m - b.m)
    ELSE IF a.k = "fin" THEN [b EXCEPT !.m = -b.m]
    ELSE IF b.k = "fin" THEN a
    ELSE IF a.m = b.m THEN NaN
    ELSE a

\* a + b
Add(a, b) ==
    IF a.k = "nan" \/ b.k = "nan" THEN NaN
    ELSE IF a.k = "fin" /\ b.k = "fin" THEN Fin(a.m + b.m)
    ELSE IF a.k = "fin" THEN b
    ELSE IF b.k = "fin" THEN a
    ELSE IF a.m = b.m THEN a
    ELSE NaN

\* a > b (false when either is NaN)
Gt(a, b) ==
    IF a.k = "nan" \/ b.k = "nan" THEN FALSE
    ELSE IF a.k = "fin" /\ b.k = "fin" THEN a.m > b.m
    ELSE IF a.k = "fin" THEN b.m < 0
    ELSE IF b.k = "fin" THEN a.m > 0
    ELSE a.m > b.m

\* a >= b (false when either is NaN)
Ge(a, b) == a.k # "nan" /\ b.k # "nan" /\ ~Gt(b, a)

\* Math.abs(a)
MathAbs(a) == IF a.k = "nan" THEN NaN ELSE [a EXCEPT !.m = AbsInt(a.m)]

\* -a
Neg(a) == IF a.k = "nan" THEN NaN ELSE [a EXCEPT !.m = -a.m]

\* A double holds a decimal x.xx5 exactly only when it is a multiple of 1/8;
\* otherwise the double lies just above or just below the tie, and `up` says
\* which.  An exact tie is rounded as the operation at hand rounds ties.
IsTie(a) == a % 10 = 5
IsExact(a) == a % 125 = 0
\* The sides of the tie the double holding x may lie on (FALSE where x is no
\* tie, or an exact one: there is nothing to choose).
Sides(x) ==
    IF x.k = "fin" /\ IsTie(AbsInt(x.m)) /\ ~IsExact(x.m) THEN BOOLEAN ELSE {FALSE}

----------------------------------------------------------------------------
(* Strings.                                                                *)

DigitChars == <<"0", "1", "2", "3", "4", "5", "6", "7", "8", "9">>

RECURSIVE IntToStr(_)
\* The decimal digits of a natural number.
IntToStr(n) ==
    IF n < 10 THEN <<DigitChars[n + 1]>>
    ELSE IntToStr(n \div 10) \o <<DigitChars[(n % 10) + 1]>>

DigitValue(c) == CHOOSE d \in 0..9 : DigitChars[d + 1] = c

IsDigit(c) == \E d \in 0..9 : DigitChars[d + 1] = c

RECURSIVE StrToInt(_)
\* The natural number a string of digits denotes ("" is 0).
StrToInt(s) ==
    IF s = <<>> THEN 0
    ELSE 10 * StrToInt(SubSeq(s, 1, Len(s) - 1)) + DigitValue(s[Len(s)])

\* s.includes(c)
Includes(s, c) == \E i \in 1..Len(s) : s[i] = c

\* The index of the first c in s, or 0.
IndexOf(s, c) ==
    IF Includes(s, c) THEN CHOOSE i \in 1..Len(s) : s[i] = c /\ \A j \in 1..(i - 1) : s[j] # c
    ELSE 0

RECURSIVE Split(_, _)
\* s.split(c)
Split(s, c) ==
    LET i == IndexOf(s, c) IN
    IF i = 0 THEN <<s>>
    ELSE <<SubSeq(s, 1, i - 1)>> \o Split(SubSeq(s, i + 1, Len(s)), c)

\* Number.prototype.toFixed(2)
ToFixed2(x, up) ==
    IF x.k = "nan" THEN <<"N", "a", "N">>
    ELSE IF x.k = "inf" THEN
        (IF x.m < 0 THEN <<"-">> ELSE <<>>) \o <<"I", "n", "f", "i", "n", "i", "t", "y">>
    ELSE IF x.k = "big" THEN
        (IF x.m < 0 THEN <<"-">> ELSE <<>>) \o <<"1", "e", "+", "2", "1">>
    ELSE
        LET a == AbsInt(x.m)
            q == a \div 10
            r == a % 10
            n == IF r > 5 \/ (IsTie(a) /\ (IsExact(a) \/ up)) THEN q + 1 ELSE q
            cents == n % 100
        IN  (IF x.m < 0 THEN <<"-">> ELSE <<>>)
            \o IntToStr(n \div 100) \o <<".">>
            \o <<DigitChars[(cents \div 10) + 1], DigitChars[(cents % 10) + 1]>>

\* Number(string), for the strings toFixed returns
StrToNumber(s) ==
    IF s = <<"N", "a", "N">> THEN NaN
    ELSE IF s = <<"I", "n", "f", "i", "n", "i", "t", "y">> THEN PosInf
    ELSE IF s = <<"-", "I", "n", "f", "i", "n", "i", "t", "y">> THEN NegInf
    ELSE IF s = <<"1", "e", "+", "2", "1">> THEN Huge
    ELSE IF s = <<"-", "1", "e", "+", "2", "1">> THEN Neg(Huge)
    ELSE
        LET neg == s # <<>> /\ s[1] = "-"
            body == IF neg THEN Tail(s) ELSE s
            parts == Split(body, ".")
            whole == parts[1]
            frac == IF Len(parts) > 1 THEN parts[2] ELSE <<>>
            ok == /\ Len(parts) <= 2
                  /\ Len(whole) + Len(frac) > 0
                  /\ Len(frac) <= 3
                  /\ \A i \in 1..Len(whole) : IsDigit(whole[i])
                  /\ \A i \in 1..Len(frac) : IsDigit(frac[i])
            fracMills == StrToInt(frac) *
                (CASE Len(frac) = 0 -> 0 [] Len(frac) = 1 -> 100 [] Len(frac) = 2 -> 10 [] OTHER -> 1)
            mag == StrToInt(whole) * Scale + fracMills
        IN  IF ok THEN Fin(IF neg THEN -mag ELSE mag) ELSE NaN

----------------------------------------------------------------------------
(* usePaymentNumpad                                                        *)

\* No setNumpadValue(number) is in effect.
NoSet == [n |-> Undefined, shown |-> <<>>, tried |-> FALSE]

\* The keys of the numpad: '0'..'9' (here up to MaxDigitKey), '.', '00'.
Keys == {<<DigitChars[d + 1]>> : d \in 0..MaxDigitKey} \cup {<<".">>, <<"0", "0">>}

\* (mutation of DecimalsFull: "> 2" for ">= 2")
DecimalsFullLoose(display) ==
    /\ Includes(display, ".")
    /\ Len(Split(display, ".")[2]) > 2

\* The decimal-places check of numpadInput: the buffer holds a '.', and the text
\* between it and the next '.' (or the end) is at least 2 long.
DecimalsFull(display) ==
    /\ Includes(display, ".")
    /\ Len(Split(display, ".")[2]) >= 2

\* The buffer after numpadInput(char).
InputResult(display, char) ==
    IF char = <<".">> /\ Includes(display, ".") THEN display
    ELSE IF DecimalsFull(display) THEN display
    ELSE IF Len(display) >= 10 THEN display
    ELSE display \o char

numpadInput(char) ==
    /\ numpadDisplay' = InputResult(numpadDisplay, char)
    /\ afterSet' = IF afterSet = NoSet THEN NoSet ELSE [afterSet EXCEPT !.tried = TRUE]
    /\ UNCHANGED <<payVars, quickVars, roundVars, fmtVars>>

numpadBackspace ==
    /\ numpadDisplay' = SubSeq(numpadDisplay, 1, Len(numpadDisplay) - 1)
    /\ afterSet' = NoSet
    /\ UNCHANGED <<payVars, quickVars, roundVars, fmtVars>>

numpadClear ==
    /\ numpadDisplay' = <<>>
    /\ afterSet' = NoSet
    /\ UNCHANGED <<payVars, quickVars, roundVars, fmtVars>>

\* The numbers and strings setNumpadValue is called with.
SetNumbers ==
    {Fin(m) : m \in {-5000, -1, 0, 1005, 12500}}
    \cup {NaN, PosInf, NegInf, Huge}
SetStrings == {StrVal(<<>>), StrVal(<<"1", ".", "5">>)}

setNumpadValue(value) ==
    /\ IF IsNumber(value)
       THEN /\ \E up \in Sides(value) : numpadDisplay' = ToFixed2(value, up)
            /\ afterSet' = [n |-> value, shown |-> numpadDisplay', tried |-> FALSE]
       ELSE /\ numpadDisplay' = value.s
            /\ afterSet' = NoSet
    /\ UNCHANGED <<payVars, quickVars, roundVars, fmtVars>>

----------------------------------------------------------------------------
(* round2, the copy of the payment calculations                            *)

\* Number(val)
NumberOf(val) ==
    IF IsNumber(val) THEN val
    ELSE IF val.k = "string" THEN StrToNumber(val.s)
    ELSE NaN

\* Number(Number(val).toFixed(2))
round2(val, up) == StrToNumber(ToFixed2(NumberOf(val), up))

----------------------------------------------------------------------------
(* round2, the copy of the currency utilities                              *)

\* Math.round(value * 100), in hundredths: a tie is rounded towards +Infinity.
RoundedHundredths(m, up) ==
    LET c == m \div 10
        r == m % 10
    IN  IF r > 5 \/ (IsTie(m) /\ (IsExact(m) \/ up)) THEN c + 1 ELSE c

\* (mutation of currencyRound2: Math.round(value * 100), the "/ 100" left out)
currencyRound2NoDivide(value, up) ==
    IF ~IsNumber(value) \/ value.k = "nan" THEN Fin(0)
    ELSE IF value.k = "fin" THEN Fin(RoundedHundredths(value.m, up) * Scale)
    ELSE value

currencyRound2(value, up) ==
    IF ~IsNumber(value) \/ value.k = "nan" THEN Fin(0)
    ELSE IF value.k = "fin" THEN Fin(RoundedHundredths(value.m, up) * 10)
    ELSE value

----------------------------------------------------------------------------
(* usePaymentCalculations                                                  *)

\* entry.amount || 0
AmountOrZero(amount) ==
    IF amount.k \in {"undefined", "nan"} \/ amount = Fin(0) THEN Fin(0) ELSE amount

RECURSIVE SumAmounts(_)
\* paymentEntries.value.reduce((acc, entry) => acc + (entry.amount || 0), 0)
SumAmounts(entries) ==
    IF entries = <<>> THEN Fin(0)
    ELSE Add(SumAmounts(SubSeq(entries, 1, Len(entries) - 1)),
             AmountOrZero(entries[Len(entries)]))

\* (mutation of TotalPaid: the sum returned without round2)
TotalPaidNoRound(entries, up) == SumAmounts(entries)

TotalPaid(entries, up) == round2(SumAmounts(entries), up)

\* (mutation of RemainingAmount: the difference returned without the "> 0" test)
RemainingAmountNoClamp(total, paid, upG) ==
    round2(Sub(round2(total, upG), paid), FALSE)

\* (the difference of two amounts in whole cents is no tie: round2 of it has no
\* side to choose)
RemainingAmount(total, paid, upG) ==
    LET rem == Sub(round2(total, upG), paid)
    IN  IF Gt(rem, Fin(0)) THEN round2(rem, FALSE) ELSE Fin(0)

\* (mutation of ChangeAmount: the subtraction of remainingAmount copied)
ChangeAmountSwapped(total, paid, upG) ==
    LET change == Sub(round2(total, upG), paid)
    IN  IF Gt(change, Fin(0)) THEN round2(change, FALSE) ELSE Fin(0)

ChangeAmount(total, paid, upG) ==
    LET change == Sub(paid, round2(total, upG))
    IN  IF Gt(change, Fin(0)) THEN round2(change, FALSE) ELSE Fin(0)

\* The amounts of the entries and the grand totals of the model: whole cents,
\* thousandths, ties (x.xx5), negative values, a missing amount and NaN.
AmountValues ==
    {Undefined, NaN, Fin(-1000), Fin(5), Fin(125), Fin(5000), Fin(10100)}
GrandTotals ==
    {Fin(-1000), Fin(0), Fin(1005), Fin(4995), Fin(10006), Fin(15100), Fin(15125)}

\* The computed values, recomputed when the entries or the grand total change.
Recompute(entries, total) ==
    \E upT \in Sides(SumAmounts(entries)), upG \in Sides(total) :
        /\ paymentEntries' = entries
        /\ grandTotal' = total
        /\ roundedTotal' = round2(total, upG)
        /\ totalPaid' = TotalPaid(entries, upT)
        /\ remainingAmount' = RemainingAmount(total, totalPaid', upG)
        /\ changeAmount' = ChangeAmount(total, totalPaid', upG)
        /\ UNCHANGED <<numpadVars, quickVars, roundVars, fmtVars>>

\* An entry is added to paymentEntries.
AddEntry(amount) ==
    /\ Len(paymentEntries) < MaxEntries
    /\ Recompute(Append(paymentEntries, amount), grandTotal)

\* The amount of an entry is changed.
SetEntryAmount(i, amount) ==
    /\ i \in 1..Len(paymentEntries)
    /\ Recompute([paymentEntries EXCEPT ![i] = amount], grandTotal)

\* An entry is removed.
RemoveEntry(i) ==
    /\ i \in 1..Len(paymentEntries)
    /\ Recompute(SubSeq(paymentEntries, 1, i - 1)
                    \o SubSeq(paymentEntries, i + 1, Len(paymentEntries)),
                 grandTotal)

\* grandTotal changes.
SetGrandTotal(total) == Recompute(paymentEntries, total)

----------------------------------------------------------------------------
(* useQuickAmounts                                                         *)

\* Math.ceil(a / b) for thousandths a and b > 0
CeilDiv(a, b) == -((-a) \div b)

\* The denominations for a remaining amount (in thousandths).
Denominations(rem) ==
    IF rem < 20 * Scale THEN <<5, 10, 20, 50>>
    ELSE IF rem < 100 * Scale THEN <<10, 20, 50, 100>>
    ELSE IF rem < 500 * Scale THEN <<50, 100, 200, 500>>
    ELSE IF rem < 2000 * Scale THEN <<100, 200, 500, 1000>>
    ELSE <<500, 1000, 2000, 5000>>

\* minGap = Math.max(5, exactAmount * 0.05), times 100
MinGapTimes100(exactAmount) ==
    IF 500 >= 5 * exactAmount THEN 500 ELSE 5 * exactAmount

\* (mutation of IsFarEnough: only the first amount, exactAmount, is compared)
IsFarEnoughFromExact(newAmt, amounts, exactAmount) ==
    ~(100 * AbsInt(newAmt - exactAmount) < MinGapTimes100(exactAmount))

\* isFarEnough(newAmt): no existing amount is closer than minGap
IsFarEnough(newAmt, amounts, exactAmount) ==
    \A existing \in amounts :
        ~(100 * AbsInt(newAmt - existing) < MinGapTimes100(exactAmount))

\* (mutation of InitialAmounts: amounts.add(exactAmount) left out)
InitialAmountsEmpty(exactAmount) == {}

\* The set amounts before the loop.
InitialAmounts(exactAmount) == {exactAmount}

RECURSIVE AddRoundUps(_, _, _, _, _)
\* The loop over the denominations, from the i-th on.
AddRoundUps(rem, exactAmount, denominations, i, amounts) ==
    IF i > Len(denominations) \/ Cardinality(amounts) >= 4 THEN amounts
    ELSE
        LET denom == denominations[i]
            roundedUp == CeilDiv(rem, denom * Scale) * denom
            a1 == IF roundedUp > exactAmount /\ IsFarEnough(roundedUp, amounts, exactAmount)
                  THEN amounts \cup {roundedUp} ELSE amounts
            oneStepUp == roundedUp + denom
            a2 == IF /\ Cardinality(a1) < 4
                     /\ oneStepUp > exactAmount
                     /\ IsFarEnough(oneStepUp, a1, exactAmount)
                  THEN a1 \cup {oneStepUp} ELSE a1
        IN  AddRoundUps(rem, exactAmount, denominations, i + 1, a2)

RECURSIVE SortAscending(_)
\* Array.from(set).sort((a, b) => a - b)
SortAscending(S) ==
    IF S = {} THEN <<>>
    ELSE LET least == CHOOSE a \in S : \A b \in S : a <= b
         IN  <<least>> \o SortAscending(S \ {least})

\* The value of the computed quickAmounts for a remaining amount in thousandths.
QuickAmounts(rem) ==
    IF rem <= 0 THEN <<10, 20, 50, 100>>
    ELSE
        LET exactAmount == CeilDiv(rem, Scale)
            amounts == AddRoundUps(rem, exactAmount, Denominations(rem), 1,
                                   InitialAmounts(exactAmount))
            sorted == SortAscending({amt \in amounts : amt > 0})
        IN  SubSeq(sorted, 1, IF Len(sorted) < 4 THEN Len(sorted) ELSE 4)

\* The remaining amounts of the model, in thousandths: every unit up to MaxWhole
\* and every hundred up to MaxHundreds, each with the fractions .00, .01, .50, .99;
\* and amounts that are not positive.
Fractions == {0, 10, 500, 990}
RemainingValues ==
    {w * Scale + f : w \in 0..MaxWhole, f \in Fractions}
    \cup {w * 100 * Scale + f : w \in 0..MaxHundreds, f \in Fractions}
    \cup {-Scale, -10}

\* The computed value before its first evaluation.
NotComputed == <<-1>>

\* remainingAmount.value is read and quickAmounts evaluated.
EvaluateQuickAmounts ==
    /\ quickAmounts = NotComputed
    /\ quickAmounts' = QuickAmounts(remaining)
    /\ UNCHANGED <<remaining, numpadVars, payVars, roundVars, fmtVars>>

----------------------------------------------------------------------------
(* round2 applied to a value, and to its own result                        *)

RoundInputs == {Fin(m) : m \in (-MaxMills)..MaxMills} \cup {NaN, PosInf, NegInf, Huge}

ApplyRound2 ==
    /\ payOnce = Undefined
    /\ \E up \in Sides(roundIn) :
          /\ payOnce' = round2(roundIn, up)
          /\ curOnce' = currencyRound2(roundIn, up)
    /\ \E up \in Sides(payOnce') : payTwice' = round2(payOnce', up)
    /\ \E up \in Sides(curOnce') : curTwice' = currencyRound2(curOnce', up)
    /\ UNCHANGED <<roundIn, numpadVars, payVars, quickVars, fmtVars>>

----------------------------------------------------------------------------
(* formatCurrency                                                          *)

\* CURRENCY_SYMBOLS; a character outside ASCII is written as its Unicode name.
CURRENCY_SYMBOLS ==
    [c \in {"EGP", "SAR", "AED", "INR", "EUR", "GBP", "JPY", "CNY", "USD"} |->
        CASE c = "EGP" -> <<"E", "POUND SIGN">>
          [] c = "SAR" -> <<"LATIN SMALL LETTER E WITH CIRCUMFLEX">>
          [] c = "AED" -> <<"ARABIC LETTER DAL", ".", "ARABIC LETTER ALEF WITH HAMZA BELOW">>
          [] c = "INR" -> <<"INDIAN RUPEE SIGN">>
          [] c = "EUR" -> <<"EURO SIGN">>
          [] c = "GBP" -> <<"POUND SIGN">>
          [] c = "JPY" -> <<"YEN SIGN">>
          [] c = "CNY" -> <<"YEN SIGN">>
          [] c = "USD" -> <<"$">>]

\* The characters of the currency codes the model uses that are not in the table.
CodeChars(currency) ==
    CASE currency = "CAD" -> <<"C", "A", "D">>
      [] currency = "CHF" -> <<"C", "H", "F">>
      [] currency = "US" -> <<"U", "S">>

\* getCurrencySymbolOnly: the table, then Intl's narrow symbol ("CAD" has one, "$";
\* "CHF" has none, so Intl gives the code; "US" is no currency code, Intl throws
\* and the code is returned).
getCurrencySymbolOnly(currency) ==
    IF currency \in DOMAIN CURRENCY_SYMBOLS THEN CURRENCY_SYMBOLS[currency]
    ELSE IF currency = "CAD" THEN <<"$">>
    ELSE CodeChars(currency)

RECURSIVE GroupThousands(_, _)
\* The digits of the integer part in groups of three.
GroupThousands(digits, sep) ==
    IF Len(digits) <= 3 THEN digits
    ELSE GroupThousands(SubSeq(digits, 1, Len(digits) - 3), sep)
         \o <<sep>> \o SubSeq(digits, Len(digits) - 2, Len(digits))

RECURSIVE Zeros(_)
Zeros(n) == IF n = 0 THEN <<>> ELSE <<"0">> \o Zeros(n - 1)

\* new Intl.NumberFormat(locale, {minimumFractionDigits: 2,
\* maximumFractionDigits: 2}).format(x), for the locales en-US and de-DE
IntlFormat2(x, locale) ==
    LET group == IF locale = "de-DE" THEN "." ELSE ","
        point == IF locale = "de-DE" THEN "," ELSE "."
        sign == IF x.m < 0 THEN <<"-">> ELSE <<>>
    IN  IF x.k = "nan" THEN <<"N", "a", "N">>
        ELSE IF x.k = "inf" THEN sign \o <<"INFINITY">>
        ELSE IF x.k = "big" THEN
            sign \o GroupThousands(<<"1">> \o Zeros(21), group) \o <<point, "0", "0">>
        ELSE
            LET n == (AbsInt(x.m) + 5) \div 10
                cents == n % 100
            IN  sign \o GroupThousands(IntToStr(n \div 100), group) \o <<point>>
                \o <<DigitChars[(cents \div 10) + 1], DigitChars[(cents % 10) + 1]>>

\* (mutation of formatCurrency: the number formatted from value, Math.abs left out)
formatCurrencyNoAbs(value, currency, locale) ==
    IF ~IsNumber(value) \/ value.k = "nan" THEN <<>>
    ELSE
        LET formatted == getCurrencySymbolOnly(currency) \o <<" ">> \o IntlFormat2(value, locale)
        IN  IF Gt(Fin(0), value) THEN <<"-">> \o formatted ELSE formatted

formatCurrency(value, currency, locale) ==
    IF ~IsNumber(value) \/ value.k = "nan" THEN <<>>
    ELSE
        LET absValue == MathAbs(value)
            symbol == getCurrencySymbolOnly(currency)
            numberFormatted == IntlFormat2(absValue, locale)
            formatted == symbol \o <<" ">> \o numberFormatted
        IN  IF Gt(Fin(0), value) THEN <<"-">> \o formatted ELSE formatted

FormatValues ==
    {Fin(m) : m \in (-MaxFmtMills)..MaxFmtMills}
    \cup {Fin(-5000), Fin(5000), Fin(1234565), Fin(-1234565), Fin(-999995)}
    \cup {NaN, PosInf, NegInf, Huge, Neg(Huge), Undefined, StrVal(<<"5">>)}
FormatCurrencies == {"USD", "EUR", "EGP", "AED", "CAD", "CHF", "US"}
FormatLocales == {"en-US", "de-DE"}

\* The result before the call.
NotCalled == <<"not called">>

CallFormatCurrency ==
    /\ fmtResult = NotCalled
    /\ fmtResult' = formatCurrency(fmtValue, fmtCurrency, fmtLocale)
    /\ UNCHANGED <<fmtValue, fmtCurrency, fmtLocale, numpadVars, payVars, quickVars, roundVars>>

----------------------------------------------------------------------------
(* Specifications                                                          *)

NumpadInit == numpadDisplay = <<>> /\ afterSet = NoSet

PayInit ==
    /\ paymentEntries = <<>>
    /\ grandTotal = Fin(0)
    /\ roundedTotal = Fin(0)
    /\ totalPaid = Fin(0)
    /\ remainingAmount = Fin(0)
    /\ changeAmount = Fin(0)

QuickIdle == remaining = 0 /\ quickAmounts = NotComputed

RoundIdle ==
    /\ roundIn = Fin(0)
    /\ payOnce = Undefined /\ payTwice = Undefined
    /\ curOnce = Undefined /\ curTwice = Undefined

FormatIdle ==
    /\ fmtValue = Fin(0) /\ fmtCurrency = "USD" /\ fmtLocale = "en-US"
    /\ fmtResult = NotCalled

\* The state after construction: an empty buffer, no entries, nothing evaluated.
Init == NumpadInit /\ PayInit /\ QuickIdle /\ RoundIdle /\ FormatIdle
\* The numpad driven by its keys: numpadInput, numpadBackspace, numpadClear.
NextKeys ==
    \/ \E char \in Keys : numpadInput(char)
    \/ numpadBackspace
    \/ numpadClear
SpecKeys == Init /\ [][NextKeys]_vars

\* The numpad with setNumpadValue as well.
NextNumpad ==
    \/ \E char \in Keys : numpadInput(char)
    \/ numpadBackspace
    \/ numpadClear
    \/ \E value \in SetNumbers \cup SetStrings : setNumpadValue(value)
SpecNumpad == Init /\ [][NextNumpad]_vars

\* The payment calculations under changes of the entries and the grand total.
NextPay ==
    \/ \E amount \in AmountValues : AddEntry(amount)
    \/ \E i \in 1..MaxEntries, amount \in AmountValues : SetEntryAmount(i, amount)
    \/ \E i \in 1..MaxEntries : RemoveEntry(i)
    \/ \E total \in GrandTotals : SetGrandTotal(total)
SpecPay == Init /\ [][NextPay]_vars

\* quickAmounts evaluated for each remaining amount.
InitQuick ==
    /\ NumpadInit /\ PayInit /\ RoundIdle /\ FormatIdle
    /\ remaining \in RemainingValues
    /\ quickAmounts = NotComputed
NextQuick == EvaluateQuickAmounts
SpecQuick == InitQuick /\ [][NextQuick]_vars

\* round2 (both copies) applied to each value and to its own result.
InitRound ==
    /\ NumpadInit /\ PayInit /\ QuickIdle /\ FormatIdle
    /\ roundIn \in RoundInputs
    /\ payOnce = Undefined /\ payTwice = Undefined
    /\ curOnce = Undefined /\ curTwice = Undefined
NextRound == ApplyRound2
SpecRound == InitRound /\ [][NextRound]_vars

\* formatCurrency called with each value, currency and locale.
InitFormat ==
    /\ NumpadInit /\ PayInit /\ QuickIdle /\ RoundIdle
    /\ fmtValue \in FormatValues
    /\ fmtCurrency \in FormatCurrencies
    /\ fmtLocale \in FormatLocales
    /\ fmtResult = NotCalled
NextFormat == CallFormatCurrency
SpecFormat == InitFormat /\ [][NextFormat]_vars

----------------------------------------------------------------------------
(* Properties                                                              *)

\* The number of '.' in a string, and the characters after its first '.'.
DotCount(s) == Len(Split(s, ".")) - 1
AfterDot(s) == IF Includes(s, ".") THEN SubSeq(s, IndexOf(s, ".") + 1, Len(s)) ELSE <<>>

\* C1: driven by numpadInput (keys '0'..'9', '.', '00'), numpadBackspace and
\* numpadClear from the empty buffer, numpadDisplay never holds two '.' and
\* never holds more than 2 digits after the '.'.
C1_DecimalsLimited ==
    /\ DotCount(numpadDisplay) <= 1
    /\ Len(AfterDot(numpadDisplay)) <= 2

\* C2: driven by the same operations, numpadDisplay is never longer than 10.
C2_LengthLimited == Len(numpadDisplay) <= 10

\* C3: changeAmount and remainingAmount are never both greater than 0, after
\* every change of the entries or the grand total.
C3_ChangeRemainingExclusive ==
    ~(Gt(changeAmount, Fin(0)) /\ Gt(remainingAmount, Fin(0)))

\* C3 witness: entries that overpay the total (change is due, nothing remains)
\* after an underpaid state is possible too; here the overpaid one.
C3_Witness ==
    /\ Len(paymentEntries) = MaxEntries
    /\ Gt(changeAmount, Fin(0))
    /\ remainingAmount = Fin(0)
    /\ Gt(grandTotal, Fin(0))

\* C4: remainingAmount is never negative, and it is 0 whenever
\* totalPaid >= grandTotal (grand totals with more than 2 decimals included).
C4_RemainingNonNegative ==
    /\ Ge(remainingAmount, Fin(0))
    /\ Ge(totalPaid, grandTotal) => remainingAmount = Fin(0)

\* C4 witness: a grand total with three decimals that rounds up to exactly the
\* amount paid.
C4_Witness ==
    /\ grandTotal = Fin(4995)
    /\ roundedTotal = Fin(5000)
    /\ totalPaid = Fin(5000)
    /\ Ge(totalPaid, grandTotal)
    /\ remainingAmount = Fin(0)

\* ceil(remaining), the exact amount of a remaining amount in thousandths.
ExactAmount == CeilDiv(remaining, Scale)

QuickComputed == quickAmounts # NotComputed

\* C5: for a remaining amount > 0, quickAmounts holds at most 4 values, strictly
\* ascending, each >= ceil(remaining), any two at least
\* minGap = max(5, ceil(remaining) * 0.05) apart.
C5_QuickAmountsSpaced ==
    (QuickComputed /\ remaining > 0) =>
        /\ Len(quickAmounts) <= 4
        /\ \A i \in 1..Len(quickAmounts) : quickAmounts[i] >= ExactAmount
        /\ \A i \in 1..Len(quickAmounts), j \in 1..Len(quickAmounts) :
              i < j =>
                 /\ quickAmounts[i] < quickAmounts[j]
                 /\ 100 * (quickAmounts[j] - quickAmounts[i]) >= MinGapTimes100(ExactAmount)

\* C5 witness: for 10600 remaining, minGap is 530 and the candidates 12000 (too
\* close to 11500) are left out: [10600, 11500, 14000, 15000].
C5_Witness ==
    /\ remaining = 10600 * Scale
    /\ quickAmounts = <<10600, 11500, 14000, 15000>>

\* C6: for a remaining amount > 0, quickAmounts contains ceil(remaining), as its
\* first element: the cut to 4 entries never drops it.
C6_ExactAmountFirst ==
    (QuickComputed /\ remaining > 0) =>
        /\ Len(quickAmounts) >= 1
        /\ quickAmounts[1] = ExactAmount
        /\ \E i \in 1..Len(quickAmounts) : quickAmounts[i] = ExactAmount

\* C6 witness: 37.50 remaining, four suggestions, the first one 38 (for 37 the
\* result is [37, 50, 60, 100]).
C6_Witness ==
    /\ remaining = 37 * Scale + 500
    /\ quickAmounts = <<38, 50, 60, 100>>

\* C7: round2 is idempotent, in both copies: round2(round2(x)) is round2(x)
\* (NaN, which the payment copy returns for NaN, counts as the same value).
C7_Round2Idempotent ==
    payOnce # Undefined => (payTwice = payOnce /\ curTwice = curOnce)

\* C7 witness: 1.005, whose double lies below the tie, is rounded to 1.00, and
\* 1.00 is rounded to itself.
C7_Witness ==
    /\ roundIn = Fin(1005)
    /\ payOnce = Fin(1000) /\ payTwice = Fin(1000)
    /\ curOnce = Fin(1000) /\ curTwice = Fin(1000)

\* C8: formatCurrency returns "" for a value that is no number or is NaN; for a
\* number v < 0 it returns "-" followed by formatCurrency(-v) for the same
\* currency and locale.
C8_FormatNegative ==
    fmtResult # NotCalled =>
        /\ (~IsNumber(fmtValue) \/ fmtValue.k = "nan") => fmtResult = <<>>
        /\ (IsNumber(fmtValue) /\ Gt(Fin(0), fmtValue)) =>
              fmtResult = <<"-">> \o formatCurrency(Neg(fmtValue), fmtCurrency, fmtLocale)

\* C8 witness: formatCurrency(-5, "USD") is "-$ 5.00".
C8_Witness ==
    /\ fmtValue = Fin(-5000) /\ fmtCurrency = "USD" /\ fmtLocale = "en-US"
    /\ fmtResult = <<"-", "$", " ", "5", ".", "0", "0">>

\* C9: the computed values balance:
\* totalPaid + remainingAmount - changeAmount is round2(grandTotal).
C9_Balance ==
    Sub(Add(totalPaid, remainingAmount), changeAmount) = roundedTotal

\* C9 witness: two entries that overpay a grand total with three decimals.
C9_Witness ==
    /\ Len(paymentEntries) = MaxEntries
    /\ grandTotal = Fin(10006)
    /\ roundedTotal = Fin(10010)
    /\ Gt(changeAmount, Fin(0))

\* The buffer is digits, one '.', and exactly two digits (a '-' may lead).
TwoDecimals(s) ==
    /\ DotCount(s) = 1
    /\ Len(AfterDot(s)) = 2
    /\ \A i \in 1..Len(s) : IsDigit(s[i]) \/ s[i] = "." \/ (i = 1 /\ s[i] = "-")

\* C10 as stated: after setNumpadValue(n) with any number n, and numpadInput
\* calls after it (no numpadBackspace, numpadClear or other setNumpadValue in
\* between), the buffer is still n with exactly two digits after a single '.'.
C10_AnyNumberRejectsInput ==
    (IsNumber(afterSet.n) /\ afterSet.tried) =>
        (TwoDecimals(numpadDisplay) /\ numpadDisplay = afterSet.shown)

\* C10 amended: after setNumpadValue(n) with a finite number n below 1e21 in
\* magnitude, the buffer holds n with exactly two digits after a single '.', and
\* every numpadInput leaves it so until numpadBackspace, numpadClear or another
\* setNumpadValue.
C10_FiniteNumberRejectsInput ==
    afterSet.n.k = "fin" =>
        (TwoDecimals(numpadDisplay) /\ numpadDisplay = afterSet.shown)

\* C10 witness: setNumpadValue(12.5), then a numpadInput, and the buffer is "12.50".
C10_Witness ==
    /\ afterSet.n = Fin(12500)
    /\ afterSet.tried
    /\ numpadDisplay = <<"1", "2", ".", "5", "0">>

====
